---- MODULE Spec2Model ----
(***************************************************************************)
(* Video production pipeline of the Dewi backend: script cache            *)
(* (generate_video), render orchestration (render_video), narration       *)
(* adapter (TTSService), video assembler (VideoService).                   *)
(*                                                                         *)
(* Every request handler is a coroutine; the steps between two awaited     *)
(* external calls are atomic, and a handler may be suspended at each       *)
(* awaited external call while other handlers run.                         *)
(***************************************************************************)
EXTENDS Integers, Sequences, FiniteSets, TLC

\* ------------------------------------------------------------------ bounds
\* request handlers that may be in flight at the same time
MaxProcs == 2
\* uuid4 values drawn in one run (video ids and render ids)
MaxUuid == 3
\* body lines of a script given to _build_text_filter on its own
MaxBodyLines == 3
\* characters of a line given to _build_text_filter to be escaped
MaxLineLen == 4

Procs == 1..MaxProcs

\* ----------------------------------------------------------- Python values
\* Python's None where the other values are strings (paths)
None == "None"

\* dict.get(key, default)
Get(d, k, default) == IF k \in DOMAIN d THEN d[k] ELSE default

\* d[k] = v on a dict
Put(d, k, v) == [x \in DOMAIN d \cup {k} |-> IF x = k THEN v ELSE d[x]]

Min(a, b) == IF a < b THEN a ELSE b

Max(a, b) == IF a < b THEN b ELSE a

\* s[:n]
Prefix(s, n) == SubSeq(s, 1, Min(n, Len(s)))

\* s.endswith(suffix)
EndsWith(s, suffix) ==
    /\ Len(s) >= Len(suffix)
    /\ SubSeq(s, Len(s) - Len(suffix) + 1, Len(s)) = suffix

\* " ".join(lines)
RECURSIVE JoinSpace(_)
JoinSpace(lines) ==
    IF Len(lines) = 0 THEN ""
    ELSE IF Len(lines) = 1 THEN lines[1]
    ELSE lines[1] \o " " \o JoinSpace(Tail(lines))

\* str(uuid.uuid4()): the n-th value drawn; every draw is a fresh string
Uuid4(n) == "u" \o ToString(n)

\* --------------------------------------------------------------- the facts
\* extracted_facts, as the ingestion endpoints leave it
extracted_facts ==
    ("f1" :> [id |-> "f1", fact |-> "Water boils at 100 C", srs_status |-> "new"])
    @@
    ("f2" :> [id |-> "f2",
              fact |-> "Mitochondria are the powerhouse of every living cell",
              srs_status |-> "new"])

\* fact ids a request may carry: the known ones and an unknown one
FactIdInputs == DOMAIN extracted_facts \cup {"f0"}

\* request.vibe
Vibes == {"hype", "cozy"}

\* ------------------------------------------------------ script generation
\* AIService._mock_generate_script
MockScript(fact) ==
    [hook |-> "Okay but like...",
     body |-> <<Prefix(fact, 40) \o "...",
                "This is actually SO important",
                "Remember this fr fr">>,
     repeat_phrase |-> Prefix(fact, 35),
     mascot_cues |-> <<[timestamp |-> "0:05", character |-> "penguin", action |-> "directing"],
                       [timestamp |-> "0:10", character |-> "seal", action |-> "clapping"]>>,
     bg_suggestion |-> "subway_surfers",
     audio_vibe |-> "phonk"]

\* JSON objects the model may answer with: a complete script and one that
\* lacks most of the fields
AiJsonOutputs ==
    { [hook |-> "NO BECAUSE",
       body |-> <<"Line one", "Line two">>,
       repeat_phrase |-> "Say it again",
       mascot_cues |-> <<[timestamp |-> "0:03", character |-> "seal", action |-> "clapping"]>>,
       bg_suggestion |-> "minecraft",
       audio_vibe |-> "lofi"],
      [hook |-> "WAIT WHAT"] }

\* how the model call of generate_video_script may end: there is no client;
\* the call, or json.loads on the matched text, throws; the text holds no JSON
\* object; the text holds a JSON object
AiAnswersFor(configured) ==
    IF ~configured THEN {[kind |-> "unconfigured"]}
    ELSE {[kind |-> "throws"], [kind |-> "no_json"]}
         \cup {[kind |-> "json", object |-> o] : o \in AiJsonOutputs}

\* AIService.generate_video_script: the parsed JSON object when there is one,
\* the mock in every other case
GenerateVideoScript(fact, answer) ==
    IF answer.kind = "json" THEN answer.object ELSE MockScript(fact)

\* what generate_video_script may return for a fact
ScriptOutcomes(fact, configured) ==
    {GenerateVideoScript(fact, answer) : answer \in AiAnswersFor(configured)}

\* cache_key = f"{request.fact_id}_{request.vibe}"
CacheKey(fact_id, vibe) == fact_id \o "_" \o vibe

\* the video dict generate_video builds from script_data
MakeVideo(video_id, fact_id, vibe, script_data, ai_available) ==
    LET fact == extracted_facts[fact_id] IN
    [id |-> video_id,
     fact_id |-> fact_id,
     script |->
        [id |-> video_id,
         fact_id |-> fact_id,
         hook |-> Get(script_data, "hook", "Okay but like..."),
         body |-> Get(script_data, "body", <<fact.fact>>),
         repeat_phrase |-> Get(script_data, "repeat_phrase", Prefix(fact.fact, 40)),
         mascot_cues |-> Get(script_data, "mascot_cues", <<>>),
         background |-> Get(script_data, "bg_suggestion", "subway_surfers"),
         audio_vibe |-> Get(script_data, "audio_vibe", "phonk"),
         duration_seconds |-> 15],
     srs_status |-> Get(fact, "srs_status", "new"),
     loop_count |-> 0,
     vibe |-> vibe,
     render_status |-> "pending",
     ai_available |-> ai_available]

\* ------------------------------------------------------------------- state
VARIABLES
    generated_videos,   \* videos.generated_videos: key -> video
    rendered_videos,    \* videos.rendered_videos: render id -> result
    files,              \* the files on disk: path -> content
    ffmpeg_cache,       \* VideoService._ffmpeg_available: <<>> is None, <<b>> is b
    toolchain,          \* whether the ffmpeg binary can be run right now
    google_key,         \* bool(settings.GOOGLE_API_KEY)
    elevenlabs_key,     \* bool(settings.ELEVENLABS_API_KEY)
    uuid_count,         \* number of uuid4 values drawn so far
    pc,                 \* per handler: where it is suspended
    local,              \* per handler: its local variables
    event,              \* what the last step did and answered
    script_calls,       \* history: calls of generate_video_script per (fact_id, vibe)
    script_log,         \* history: video id -> what the model call of its script gave
    first_video,        \* history: the first video answered per (fact_id, vibe)
    tts_log,            \* history: render id -> outcome of its text_to_speech call
    mux_log,            \* history: render id -> outcome of its ffmpeg run
    render_returns,     \* history: number of render_video calls that returned a result
    text_lines,         \* _build_text_filter on its own: its argument
    filters             \* _build_text_filter on its own: its filters, once built

vars == <<generated_videos, rendered_videos, files, ffmpeg_cache, toolchain,
          google_key, elevenlabs_key, uuid_count, pc, local, event,
          script_calls, script_log, first_video, tts_log, mux_log, render_returns,
          text_lines, filters>>

EmptyDict == [x \in {} |-> 0]

NoLocal == [op |-> "none"]

\* what a step did: the handler step taken, the request it serves, the HTTP
\* status answered (0: the handler is suspended, nothing is answered yet), the
\* body answered, and the external capabilities the step called
Event(op, req, code, body, invoked) ==
    [op |-> op, req |-> req, code |-> code, body |-> body, invoked |-> invoked]

NoBody == [detail |-> "none"]

Pairs == (DOMAIN extracted_facts) \X Vibes

\* the state after the modules are imported, but for the script cache and the
\* environment
InitStores ==
    /\ rendered_videos = EmptyDict
    /\ files = EmptyDict
    /\ ffmpeg_cache = <<>>
    /\ pc = [p \in Procs |-> "idle"]
    /\ local = [p \in Procs |-> NoLocal]
    /\ event = Event("init", <<>>, 0, NoBody, {})
    /\ script_calls = [k \in Pairs |-> 0]
    /\ first_video = EmptyDict
    /\ tts_log = EmptyDict
    /\ mux_log = EmptyDict
    /\ render_returns = 0

\* no script has been generated
NoScripts ==
    /\ generated_videos = EmptyDict
    /\ script_log = EmptyDict
    /\ uuid_count = 0

\* the script cache after one generate_video call for fact f1 and vibe hype
\* that the model call answered with the given answer
OneVideo(answer) ==
    LET script_data == GenerateVideoScript(extracted_facts["f1"].fact, answer)
        video == MakeVideo(Uuid4(1), "f1", "hype", script_data, google_key)
    IN /\ generated_videos =
             Put(Put(EmptyDict, CacheKey("f1", "hype"), video), Uuid4(1), video)
       /\ script_log = Put(EmptyDict, Uuid4(1), answer)
       /\ uuid_count = 1

\* _build_text_filter is not run on its own
NoOverlay ==
    /\ text_lines = <<>>
    /\ filters = <<>>

\* generate_video reads neither the toolchain nor the narration key
InitGenerate ==
    /\ InitStores
    /\ NoOverlay
    /\ NoScripts
    /\ google_key \in BOOLEAN
    /\ toolchain = FALSE
    /\ elevenlabs_key = FALSE

\* a request is served by the first free handler (the handlers are
\* interchangeable)
Free(p) == pc[p] = "idle" /\ \A q \in Procs : q < p => pc[q] # "idle"

\* uuid4 values the suspended handlers will still draw
UuidReserved == Cardinality({p \in Procs : pc[p] = "await_script"})

\* --------------------------------------------------------- generate_video
\* a cache that is never consulted
CacheHitNever(cache_key) == FALSE

\* whether generate_video answers from the cache
CacheHit(cache_key) == cache_key \in DOMAIN generated_videos

RecordFirst(fv, fact_id, vibe, video) ==
    IF <<fact_id, vibe>> \in DOMAIN fv THEN fv ELSE Put(fv, <<fact_id, vibe>>, video)

\* generate_video up to the awaited generate_video_script
GenerateVideo(p, fact_id, vibe) ==
    /\ Free(p)
    /\ UNCHANGED <<rendered_videos, files, ffmpeg_cache, toolchain, google_key,
                   elevenlabs_key, uuid_count, generated_videos, script_log, tts_log,
                   mux_log, render_returns, text_lines, filters>>
    /\ IF fact_id \notin DOMAIN extracted_facts
       THEN /\ event' = Event("GenerateVideo", <<fact_id, vibe>>, 404, [detail |-> "Fact not found"], {})
            /\ UNCHANGED <<pc, local, script_calls, first_video>>
       ELSE IF CacheHit(CacheKey(fact_id, vibe))
       THEN /\ event' = Event("GenerateVideo", <<fact_id, vibe>>, 200,
                              generated_videos[CacheKey(fact_id, vibe)], {})
            /\ first_video' = RecordFirst(first_video, fact_id, vibe,
                                          generated_videos[CacheKey(fact_id, vibe)])
            /\ UNCHANGED <<pc, local, script_calls>>
       ELSE /\ uuid_count + UuidReserved < MaxUuid
            /\ pc' = [pc EXCEPT ![p] = "await_script"]
            /\ local' = [local EXCEPT ![p] =
                            [op |-> "generate", fact_id |-> fact_id, vibe |-> vibe]]
            /\ script_calls' = [script_calls EXCEPT ![<<fact_id, vibe>>] = @ + 1]
            /\ event' = Event("GenerateVideo", <<fact_id, vibe>>, 0, NoBody, {"script"})
            /\ UNCHANGED first_video

\* generate_video from the return of generate_video_script to its own return
GenerateVideoResume(p, answer) ==
    /\ pc[p] = "await_script"
    /\ LET fact_id == local[p].fact_id
           vibe == local[p].vibe
           script_data == GenerateVideoScript(extracted_facts[fact_id].fact, answer)
           video_id == Uuid4(uuid_count + 1)
           video == MakeVideo(video_id, fact_id, vibe, script_data, google_key)
       IN /\ answer \in AiAnswersFor(google_key)
          /\ uuid_count' = uuid_count + 1
          /\ script_log' = Put(script_log, video_id, answer)
          /\ generated_videos' =
                Put(Put(generated_videos, CacheKey(fact_id, vibe), video), video_id, video)
          /\ event' = Event("GenerateVideoResume", <<fact_id, vibe>>, 200, video, {})
          /\ first_video' = RecordFirst(first_video, fact_id, vibe, video)
    /\ pc' = [pc EXCEPT ![p] = "idle"]
    /\ local' = [local EXCEPT ![p] = NoLocal]
    /\ UNCHANGED <<rendered_videos, files, ffmpeg_cache, toolchain, google_key,
                   elevenlabs_key, script_calls, tts_log, mux_log, render_returns,
                   text_lines, filters>>

\* ------------------------------------------------------ overlay timing
\* a time in seconds as an exact fraction (the code computes in floats)
Frac(num, den) == [num |-> num, den |-> den]

\* a <= b on fractions
FracLeq(a, b) == a.num * b.den <= b.num * a.den

\* duration of _assemble_video
Duration == 15

\* str.replace(old, new) for a one-character old
RECURSIVE Replace(_, _, _)
Replace(s, old, new) ==
    IF Len(s) = 0 THEN ""
    ELSE (IF SubSeq(s, 1, 1) = old THEN new ELSE SubSeq(s, 1, 1))
             \o Replace(SubSeq(s, 2, Len(s)), old, new)

\* an escaping that writes the quote as it writes the colon
EscapeLineQuoteAsColon(line) == Replace(Replace(line, "'", ":"), ":", "\\:")

\* escaped_line of _build_text_filter
EscapeLine(line) == Replace(Replace(line, "'", "'\\''"), ":", "\\:")

\* the tiers with the two thresholds on the other side
FontSizeInclusive(line) == IF Len(line) <= 30 THEN 72 ELSE IF Len(line) <= 50 THEN 56 ELSE 48

\* font_size of _build_text_filter
FontSize(line) == IF Len(line) < 30 THEN 72 ELSE IF Len(line) < 50 THEN 56 ELSE 48

\* the first character of the repeat line, one character like the emoji
RepeatMark == "@"

\* text_lines of _assemble_video
TextLines(script) ==
    LET hook == Get(script, "hook", "Did you know?")
        body == Get(script, "body", <<"Learning content here">>)
        repeat_phrase == Get(script, "repeat_phrase",
                             IF Len(body) > 0 THEN body[1] ELSE "")
    IN <<hook>> \o body \o <<RepeatMark \o " " \o repeat_phrase>>

\* _build_text_filter: one drawtext filter per line, with its text, its font
\* size and the two bounds of enable='between(t,start_time,end_time)'
BuildTextFilter(lines, duration) ==
    LET line_duration == Frac(duration, Len(lines))
    IN [k \in 1..Len(lines) |->
          [text |-> EscapeLine(lines[k]),
           fontsize |-> FontSize(lines[k]),
           start_time |-> Frac((k - 1) * line_duration.num, line_duration.den),
           end_time |-> Frac(k * line_duration.num, line_duration.den)]]

\* ffmpeg's between(t, min, max): 1 when min <= t <= max
Between(t, min, max) == FracLeq(min, t) /\ FracLeq(t, max)

\* whether ffmpeg draws the filter's text on the frame at time t
Drawn(filter, t) == Between(t, filter.start_time, filter.end_time)

\* ------------------------------------------------------------ VideoService
\* VideoService.output_dir
OutputDir == "data/videos"

\* Path / name
PathJoin(dir, name) == dir \o "/" \o name

\* an is_available that runs the binary at every evaluation
IsAvailableUncached(cache, binary_runs) == binary_runs

\* VideoService.is_available: the value, and _ffmpeg_available after the call;
\* the binary is probed only while nothing is cached
IsAvailable(cache, binary_runs) == IF cache = <<>> THEN binary_runs ELSE cache[1]

IsAvailableCache(cache, binary_runs) == IF cache = <<>> THEN <<binary_runs>> ELSE cache

\* output_path of create_video
VideoPath(output_name) == PathJoin(OutputDir, output_name \o ".mp4")

\* output_path of _create_placeholder_video
PlaceholderPath(output_name) == PathJoin(OutputDir, output_name \o "_pending.json")

\* the JSON document _create_placeholder_video dumps
PlaceholderContent(script, output_name) ==
    [kind |-> "placeholder",
     status |-> "pending",
     message |-> "Video generation requires FFmpeg. Install with: brew install ffmpeg",
     script |-> script,
     output_name |-> output_name]

\* VideoService.WIDTH, VideoService.HEIGHT
Width == 1080

Height == 1920

\* VideoService.BG_VIDEOS
BgVideos ==
    [name \in {"subway_surfers", "minecraft", "satisfying", "soap_cutting"} |->
        CASE name = "subway_surfers" -> "subway_surfers.mp4"
          [] name = "minecraft" -> "minecraft_parkour.mp4"
          [] name = "satisfying" -> "satisfying.mp4"
          [] name = "soap_cutting" -> "soap_cutting.mp4"]

\* assets_dir / "backgrounds" / bg_video
BgPath(bg_video) == PathJoin(PathJoin("data/assets", "backgrounds"), bg_video)

\* bg_type of _assemble_video
BgType(script) == Get(script, "bg_suggestion", "subway_surfers")

\* the first input of the ffmpeg command: the looped background file when it
\* exists, a colour source of the frame size otherwise
BackgroundInput(script, disk) ==
    LET bg_video == Get(BgVideos, BgType(script), "subway_surfers.mp4")
        bg_path == BgPath(bg_video)
    IN IF bg_path \in DOMAIN disk
       THEN [kind |-> "file", path |-> bg_path, t |-> Duration]
       ELSE [kind |-> "color", s |-> <<Width, Height>>, d |-> Duration]

\* the command without the -shortest flag
AssembleCommandNoShortest(script, audio_path, output_path, disk) ==
    LET with_audio == audio_path # None /\ audio_path \in DOMAIN disk
    IN [bg_input |-> BackgroundInput(script, disk),
        audio_input |-> IF with_audio THEN audio_path ELSE None,
        maps |-> IF with_audio THEN <<"0:v", "1:a">> ELSE <<>>,
        shortest |-> FALSE,
        output_path |-> output_path]

\* the ffmpeg command of _assemble_video: the background input, and the
\* narration as an input, mapped with -shortest, when a path is given and a
\* file exists there (its -vf argument is BuildTextFilter of TextLines(script),
\* which SpecOverlay runs on its own)
AssembleCommand(script, audio_path, output_path, disk) ==
    LET with_audio == audio_path # None /\ audio_path \in DOMAIN disk
    IN [bg_input |-> BackgroundInput(script, disk),
        audio_input |-> IF with_audio THEN audio_path ELSE None,
        maps |-> IF with_audio THEN <<"0:v", "1:a">> ELSE <<>>,
        shortest |-> with_audio,
        output_path |-> output_path]

\* the file an ffmpeg run that exits with 0 writes for the command. The colour
\* source lasts d seconds; the looped background file has no end of its own,
\* and the -t that follows it bounds the output when it is the only input and
\* the narration input when there is one. So the output lasts that many
\* seconds without a narration input, and with one mapped under -shortest it
\* ends with the shorter of that bound and the narration (without -shortest it
\* runs on to the end of the longer stream)
FfmpegOutput(cmd, disk) ==
    LET video_seconds == IF cmd.bg_input.kind = "file" THEN cmd.bg_input.t
                         ELSE cmd.bg_input.d
    IN [kind |-> "mp4",
        audio_input |-> cmd.audio_input,
        has_audio |-> cmd.audio_input # None,
        seconds |-> IF cmd.audio_input = None THEN video_seconds
                    ELSE IF cmd.shortest
                         THEN Min(video_seconds, disk[cmd.audio_input].seconds)
                    ELSE Max(video_seconds, disk[cmd.audio_input].seconds)]

\* how the ffmpeg run of _assemble_video may end: exit code 0, or a non-zero
\* exit code or an exception of subprocess.run
MuxOutcomes == {"ok", "error"}

\* a create_video that returns None when the ffmpeg run fails
CreateVideoReturnNone(outcome, output_name) ==
    IF outcome = "ok" THEN VideoPath(output_name) ELSE None

\* create_video after the ffmpeg run: the path it returns
CreateVideoReturn(outcome, output_name) ==
    IF outcome = "ok" THEN VideoPath(output_name) ELSE PlaceholderPath(output_name)

\* the disk after create_video
CreateVideoDisk(disk, outcome, cmd, script, output_name) ==
    IF outcome = "ok"
    THEN Put(disk, cmd.output_path, FfmpegOutput(cmd, disk))
    ELSE Put(disk, PlaceholderPath(output_name), PlaceholderContent(script, output_name))

\* -------------------------------------------------------------- TTSService
\* TTSService.is_available
TtsIsAvailable(api_key) == api_key

\* request.mascot_voice: a known voice and an unknown one
Voices == {"seal", "robot"}

\* how the call of text_to_speech may end: audio received and saved; an empty
\* 200 answer saved; a non-200 answer or an exception of the request; an
\* exception while writing the file that open() created
TtsOutcomes == {"ok", "empty", "error", "write_error"}

\* without an API key text_to_speech returns None before any request
TtsOutcomesFor(api_key) == IF TtsIsAvailable(api_key) THEN TtsOutcomes ELSE {"unconfigured"}

\* the text sent as it was given, whatever its length
SubmittedTextWhole(text) == text

\* the "text" of the request text_to_speech posts
SubmittedText(text) == IF Len(text) > 5000 THEN Prefix(text, 5000) ELSE text

\* what text_to_speech returns
TextToSpeechReturn(outcome) ==
    CASE outcome = "ok" -> "audio"
      [] outcome = "empty" -> ""
      [] OTHER -> None

\* audio_bytes is not None
TruthyNotNone(audio_bytes) == audio_bytes # None

\* bool(audio_bytes)
Truthy(audio_bytes) == audio_bytes # None /\ audio_bytes # ""

\* how long the narration the voice service answers may last, in seconds
NarrationSeconds == {9, 20}

\* the disk after text_to_speech, for an answer that lasts the given seconds
TextToSpeechDisk(disk, outcome, output_path, seconds) ==
    CASE outcome = "ok" ->
            Put(disk, output_path, [kind |-> "mp3", data |-> "audio", seconds |-> seconds])
      [] outcome = "empty" ->
            Put(disk, output_path, [kind |-> "mp3", data |-> "", seconds |-> 0])
      [] outcome = "write_error" ->
            Put(disk, output_path, [kind |-> "mp3", data |-> "partial", seconds |-> 0])
      [] OTHER -> disk

\* ------------------------------------------------------------ render_video
\* narration of render_video
Narration(script) ==
    Get(script, "hook", "") \o "... " \o JoinSpace(Get(script, "body", <<>>))
        \o ". Remember: " \o Get(script, "repeat_phrase", "") \o "!"

\* result["narration_text"]
NarrationPreview(narration) ==
    IF Len(narration) > 200 THEN Prefix(narration, 200) \o "..." ELSE narration

\* one narration file for every render
AudioPathShared(render_id) == "data/audio/narration.mp3"

\* audio_path of render_video
AudioPath(render_id) == "data/audio/" \o render_id \o ".mp3"

\* the paths a render may write: create_video's output, the placeholder and
\* the narration audio
RenderPaths(render_id) ==
    {VideoPath(render_id), PlaceholderPath(render_id), AudioPath(render_id)}

\* complete whenever create_video returned a path
StatusOfAnyPath(video_path) == IF video_path # None THEN "complete" ELSE "pending_ffmpeg"

\* result["status"] after create_video
StatusOf(video_path) == IF EndsWith(video_path, ".mp4") THEN "complete" ELSE "pending_ffmpeg"

\* narration whenever there is a key, asked for or not
WantsAudioAlways(include_audio, api_key) == TtsIsAvailable(api_key)

\* whether render_video calls text_to_speech
WantsAudio(include_audio, api_key) == include_audio /\ TtsIsAvailable(api_key)

\* the result and audio_generated / audio_path after text_to_speech, in the
\* branch where ffmpeg is available
AudioResultAvailable(result, audio_bytes, audio_path) ==
    IF Truthy(audio_bytes)
    THEN Put(Put(result, "audio_generated", TRUE), "audio_path", audio_path)
    ELSE Put(result, "audio_generated", FALSE)

\* the same in the branch where ffmpeg is not available
AudioResultUnavailable(result, audio_bytes, audio_path) ==
    IF Truthy(audio_bytes)
    THEN Put(Put(result, "audio_generated", TRUE), "audio_path", audio_path)
    ELSE result

\* the result after create_video returned video_path
VideoResult(result, video_path) ==
    Put(Put(result, "video_path", video_path), "status", StatusOf(video_path))

\* the branch where ffmpeg is not available forgetting the status
UnavailableResultNoStatus(result) ==
    Put(result, "message", "Install FFmpeg: brew install ffmpeg")

\* the result of the branch where ffmpeg is not available
UnavailableResult(result) ==
    Put(Put(result, "status", "pending_ffmpeg"),
        "message", "Install FFmpeg: brew install ffmpeg")

\* rendered_videos[render_id] = result
StoreRender(renders, render_id, result) == Put(renders, render_id, result)

\* one render id drawn once and used by every call
RenderIdShared(n) == "render"

\* render ids: render_id = str(uuid.uuid4())
RenderId(n) == Uuid4(n)

\* the availability probed before the video is looked up
CacheProbedFirst(cache, binary_runs) == IsAvailableCache(cache, binary_runs)

\* _ffmpeg_available after a request for an unknown video: the handler raises
\* before it reads is_available
CacheAfterNotFound(cache, binary_runs) == cache

\* video ids a render request may carry: every key of generated_videos and an
\* unknown one
VideoIdInputs == DOMAIN generated_videos \cup {"u0"}

\* render_video from its call of create_video on, for handler p with locals l,
\* the arguments of the request the step records, the disk as it is and the
\* capabilities the step has called so far:
\* create_video returns the placeholder at once when is_available is false, and
\* runs up to the ffmpeg run of _assemble_video otherwise
EnterCreateVideo(p, l, op, args, disk, invoked) ==
    IF IsAvailable(ffmpeg_cache', toolchain)
    THEN /\ pc' = [pc EXCEPT ![p] = "await_ffmpeg"]
         /\ local' = [local EXCEPT ![p] =
               [l EXCEPT !.cmd = AssembleCommand(l.script, l.audio_path,
                                                 VideoPath(l.render_id), disk)]]
         /\ files' = disk
         /\ event' = Event(op, l.video_id, 0, NoBody, invoked \cup {"ffmpeg"}) @@ args
         /\ UNCHANGED <<rendered_videos, render_returns>>
    ELSE LET video_path == PlaceholderPath(l.render_id)
             result == VideoResult(l.result, video_path)
         IN /\ files' = Put(disk, video_path, PlaceholderContent(l.script, l.render_id))
            /\ rendered_videos' = StoreRender(rendered_videos, l.render_id, result)
            /\ render_returns' = render_returns + 1
            /\ event' = Event(op, l.video_id, 200, result, invoked) @@ args
            /\ pc' = [pc EXCEPT ![p] = "idle"]
            /\ local' = [local EXCEPT ![p] = NoLocal]

\* render_video up to its first awaited call
RenderVideo(p, video_id, include_audio, mascot_voice) ==
    /\ Free(p)
    /\ UNCHANGED <<generated_videos, toolchain, google_key, elevenlabs_key,
                   script_calls, script_log, first_video, tts_log, mux_log,
                   text_lines, filters>>
    /\ LET req == video_id
           args == [include_audio |-> include_audio]
       IN
       IF video_id \notin DOMAIN generated_videos
       THEN /\ ffmpeg_cache' = CacheAfterNotFound(ffmpeg_cache, toolchain)
            /\ event' = Event("RenderVideo", req, 404,
                              [detail |-> "Video not found. Generate first."],
                              IF ffmpeg_cache' # ffmpeg_cache THEN {"probe"} ELSE {})
                         @@ args
            /\ UNCHANGED <<rendered_videos, uuid_count, pc, local, render_returns,
                           files>>
       ELSE
         LET script == generated_videos[video_id].script
             available == IsAvailable(ffmpeg_cache, toolchain)
             probed == IF ffmpeg_cache = <<>> THEN {"probe"} ELSE {}
             render_id == RenderId(uuid_count + 1)
             narration == Narration(script)
             result == [render_id |-> render_id,
                        video_id |-> video_id,
                        status |-> "processing",
                        services |-> [ffmpeg |-> available,
                                      tts |-> TtsIsAvailable(elevenlabs_key)],
                        narration_text |-> NarrationPreview(narration)]
             l == [op |-> "render", video_id |-> video_id, script |-> script,
                   render_id |-> render_id, available |-> available,
                   audio_path |-> None, tts_text |-> None, cmd |-> <<>>,
                   result |-> result]
         IN
         /\ uuid_count + UuidReserved < MaxUuid
         /\ uuid_count' = uuid_count + 1
         /\ ffmpeg_cache' = IsAvailableCache(ffmpeg_cache, toolchain)
         /\ IF available
            THEN IF WantsAudio(include_audio, elevenlabs_key)
                 THEN /\ pc' = [pc EXCEPT ![p] = "await_tts"]
                      /\ local' = [local EXCEPT ![p] =
                                     [l EXCEPT !.audio_path = AudioPath(render_id),
                                               !.tts_text = SubmittedText(narration)]]
                      /\ event' = Event("RenderVideo", req, 0, NoBody, probed \cup {"tts"})
                                   @@ args
                      /\ UNCHANGED <<rendered_videos, render_returns, files>>
                 ELSE EnterCreateVideo(p, l, "RenderVideo", args, files, probed)
            ELSE IF WantsAudio(include_audio, elevenlabs_key)
                 THEN /\ pc' = [pc EXCEPT ![p] = "await_tts"]
                      /\ local' = [local EXCEPT ![p] =
                                     [l EXCEPT !.audio_path = AudioPath(render_id),
                                               !.tts_text = SubmittedText(narration),
                                               !.result = UnavailableResult(result)]]
                      /\ event' = Event("RenderVideo", req, 0, NoBody, probed \cup {"tts"})
                                   @@ args
                      /\ UNCHANGED <<rendered_videos, render_returns, files>>
                 ELSE /\ rendered_videos' =
                           StoreRender(rendered_videos, render_id, UnavailableResult(result))
                      /\ event' = Event("RenderVideo", req, 200,
                                        UnavailableResult(result), probed) @@ args
                      /\ render_returns' = render_returns + 1
                      /\ UNCHANGED <<pc, local, files>>

\* render_video from the return of text_to_speech to its next awaited call, or
\* to its return
RenderVideoAfterTts(p, outcome, seconds) ==
    /\ pc[p] = "await_tts"
    /\ UNCHANGED <<generated_videos, toolchain, google_key, elevenlabs_key,
                   script_calls, script_log, first_video, mux_log, ffmpeg_cache, uuid_count,
                   text_lines, filters>>
    /\ LET l == local[p]
           audio_bytes == TextToSpeechReturn(outcome)
       IN
       /\ outcome \in TtsOutcomesFor(elevenlabs_key)
       /\ seconds \in (IF outcome = "ok" THEN NarrationSeconds ELSE {0})
       /\ tts_log' = Put(tts_log, l.render_id, outcome)
       /\ IF l.available
          THEN EnterCreateVideo(p,
                   [l EXCEPT !.result =
                        AudioResultAvailable(l.result, audio_bytes, l.audio_path)],
                   "RenderVideoAfterTts", EmptyDict,
                   TextToSpeechDisk(files, outcome, l.audio_path, seconds), {})
          ELSE LET result == AudioResultUnavailable(l.result, audio_bytes, l.audio_path)
               IN /\ files' = TextToSpeechDisk(files, outcome, l.audio_path, seconds)
                  /\ rendered_videos' = StoreRender(rendered_videos, l.render_id, result)
                  /\ event' = Event("RenderVideoAfterTts", l.video_id, 200, result, {})
                  /\ render_returns' = render_returns + 1
                  /\ pc' = [pc EXCEPT ![p] = "idle"]
                  /\ local' = [local EXCEPT ![p] = NoLocal]

\* a create_video that runs ffmpeg a second time when the first run fails
RenderVideoAfterFfmpegRetry(p, outcome) ==
    /\ pc[p] = "await_ffmpeg"
    /\ UNCHANGED <<generated_videos, toolchain, google_key, elevenlabs_key,
                   script_calls, script_log, first_video, tts_log, ffmpeg_cache, uuid_count,
                   text_lines, filters>>
    /\ LET l == local[p]
           video_path == CreateVideoReturn(outcome, l.render_id)
           result == VideoResult(l.result, video_path)
       IN
       /\ mux_log' = Put(mux_log, l.render_id, outcome)
       /\ IF outcome = "error" /\ l.render_id \notin DOMAIN mux_log
          THEN /\ event' = Event("RenderVideoAfterFfmpeg", l.video_id, 0, NoBody, {"ffmpeg"})
               /\ UNCHANGED <<files, rendered_videos, render_returns, pc, local>>
          ELSE /\ files' = CreateVideoDisk(files, outcome, l.cmd, l.script, l.render_id)
               /\ rendered_videos' = StoreRender(rendered_videos, l.render_id, result)
               /\ event' = Event("RenderVideoAfterFfmpeg", l.video_id, 200, result, {})
               /\ render_returns' = render_returns + 1
               /\ pc' = [pc EXCEPT ![p] = "idle"]
               /\ local' = [local EXCEPT ![p] = NoLocal]

\* a render that writes its status into the video it rendered
RenderVideoAfterFfmpegMarksVideo(p, outcome) ==
    /\ pc[p] = "await_ffmpeg"
    /\ UNCHANGED <<toolchain, google_key, elevenlabs_key,
                   script_calls, script_log, first_video, tts_log, ffmpeg_cache, uuid_count,
                   text_lines, filters>>
    /\ LET l == local[p]
           video_path == CreateVideoReturn(outcome, l.render_id)
           result == VideoResult(l.result, video_path)
       IN
       /\ generated_videos' =
             [generated_videos EXCEPT ![l.video_id].render_status = result.status]
       /\ files' = CreateVideoDisk(files, outcome, l.cmd, l.script, l.render_id)
       /\ mux_log' = Put(mux_log, l.render_id, outcome)
       /\ rendered_videos' = StoreRender(rendered_videos, l.render_id, result)
       /\ event' = Event("RenderVideoAfterFfmpeg", l.video_id, 200, result, {})
       /\ render_returns' = render_returns + 1
    /\ pc' = [pc EXCEPT ![p] = "idle"]
    /\ local' = [local EXCEPT ![p] = NoLocal]

\* render_video from the end of the ffmpeg run inside create_video to its return
RenderVideoAfterFfmpeg(p, outcome) ==
    /\ pc[p] = "await_ffmpeg"
    /\ UNCHANGED <<generated_videos, toolchain, google_key, elevenlabs_key,
                   script_calls, script_log, first_video, tts_log, ffmpeg_cache, uuid_count,
                   text_lines, filters>>
    /\ LET l == local[p]
           video_path == CreateVideoReturn(outcome, l.render_id)
           result == VideoResult(l.result, video_path)
       IN
       /\ files' = CreateVideoDisk(files, outcome, l.cmd, l.script, l.render_id)
       /\ mux_log' = Put(mux_log, l.render_id, outcome)
       /\ rendered_videos' = StoreRender(rendered_videos, l.render_id, result)
       /\ event' = Event("RenderVideoAfterFfmpeg", l.video_id, 200, result, {})
       /\ render_returns' = render_returns + 1
    /\ pc' = [pc EXCEPT ![p] = "idle"]
    /\ local' = [local EXCEPT ![p] = NoLocal]

\* the answer of download_rendered_video: 404 for an unknown render, 404 when
\* the result has no video_path or the file is gone, and the file at
\* video_path as video/mp4 otherwise
DownloadResponse(render_id, renders, disk) ==
    IF render_id \notin DOMAIN renders
    THEN [code |-> 404, body |-> [detail |-> "Render not found"]]
    ELSE LET render == renders[render_id]
             video_path == Get(render, "video_path", None)
         IN IF video_path = None \/ video_path \notin DOMAIN disk
            THEN [code |-> 404, body |-> [detail |-> "Video file not ready"]]
            ELSE [code |-> 200,
                  body |-> [path |-> video_path,
                            media_type |-> "video/mp4",
                            filename |-> "dewi_video_" \o Prefix(render_id, 8) \o ".mp4",
                            file |-> disk[video_path].kind]]

\* download_rendered_video: the handler has no awaited call
DownloadRenderedVideo(render_id) ==
    /\ LET response == DownloadResponse(render_id, rendered_videos, files)
       IN event' = Event("DownloadRenderedVideo", render_id, response.code,
                         response.body, {})
    /\ UNCHANGED <<generated_videos, rendered_videos, files, ffmpeg_cache, toolchain,
                   google_key, elevenlabs_key, uuid_count, pc, local, script_calls,
                   script_log, first_video, tts_log, mux_log, render_returns,
                   text_lines, filters>>

\* the environment installs or removes the ffmpeg binary: what
\* subprocess.run([FFMPEG_PATH, "-version"]) would find from now on
ToolchainChange ==
    /\ toolchain' = ~toolchain
    /\ event' = Event("ToolchainChange", <<>>, 0, NoBody, {})
    /\ UNCHANGED <<generated_videos, rendered_videos, files, ffmpeg_cache,
                   google_key, elevenlabs_key, uuid_count, pc, local, script_calls,
                   script_log, first_video, tts_log, mux_log, render_returns,
                   text_lines, filters>>

\* a script cache generate_video leaves behind: one video, of fact f1 and vibe
\* hype, under its two keys
InitRender ==
    /\ InitStores
    /\ NoOverlay
    /\ toolchain \in BOOLEAN
    /\ elevenlabs_key \in BOOLEAN
    /\ google_key = FALSE
    /\ \E answer \in AiAnswersFor(google_key) : OneVideo(answer)

\* the background files that may be installed under data/assets/backgrounds
AssetInputs ==
    {EmptyDict,
     BgPath("subway_surfers.mp4") :> [kind |-> "asset"],
     (BgPath("subway_surfers.mp4") :> [kind |-> "asset"])
         @@ (BgPath("minecraft_parkour.mp4") :> [kind |-> "asset"])}

\* one video of fact f1 and vibe hype, made from any script the model or the
\* mock may give, with ffmpeg installed and some background files
InitBackground ==
    /\ NoOverlay
    /\ rendered_videos = EmptyDict
    /\ files \in AssetInputs
    /\ ffmpeg_cache = <<>>
    /\ pc = [p \in Procs |-> "idle"]
    /\ local = [p \in Procs |-> NoLocal]
    /\ event = Event("init", <<>>, 0, NoBody, {})
    /\ script_calls = [k \in Pairs |-> 0]
    /\ first_video = EmptyDict
    /\ tts_log = EmptyDict
    /\ mux_log = EmptyDict
    /\ render_returns = 0
    /\ toolchain = TRUE
    /\ elevenlabs_key \in BOOLEAN
    /\ google_key = TRUE
    /\ \E answer \in {[kind |-> "throws"]}
                       \cup {[kind |-> "json", object |-> o] : o \in AiJsonOutputs} :
          OneVideo(answer)

\* s repeated n times
RECURSIVE Repeat(_, _)
Repeat(s, n) ==
    IF n = 0 THEN ""
    ELSE IF n % 2 = 0 THEN LET half == Repeat(s, n \div 2) IN half \o half
    ELSE s \o Repeat(s, n - 1)

\* lengths of a body line that make the narration of LongScript 4999, 5000,
\* 5001 and 5100 characters long
LongLineLengths == {4960, 4961, 4962, 5061}

\* a JSON object of the model with one body line of n characters
LongScript(n) ==
    [hook |-> "NO BECAUSE", body |-> <<Repeat("a", n)>>, repeat_phrase |-> "Say it again"]

\* one video whose narration is around the length text_to_speech truncates at,
\* or an ordinary one, with the narration key set
InitNarration ==
    /\ InitStores
    /\ NoOverlay
    /\ toolchain = TRUE
    /\ elevenlabs_key = TRUE
    /\ google_key = TRUE
    /\ \E answer \in {[kind |-> "throws"]}
                       \cup {[kind |-> "json", object |-> LongScript(n)] :
                                n \in LongLineLengths} :
          OneVideo(answer)

NextRender ==
    \/ \E p \in Procs, video_id \in VideoIdInputs, include_audio \in BOOLEAN,
          mascot_voice \in Voices :
          RenderVideo(p, video_id, include_audio, mascot_voice)
    \/ \E p \in Procs, outcome \in TtsOutcomes \cup {"unconfigured"},
          seconds \in NarrationSeconds \cup {0} :
          RenderVideoAfterTts(p, outcome, seconds)
    \/ \E p \in Procs, outcome \in MuxOutcomes : RenderVideoAfterFfmpeg(p, outcome)

SpecRender == InitRender /\ [][NextRender]_vars

SpecBackground == InitBackground /\ [][NextRender]_vars

\* renders of the one video under its id, all of them with narration
NextNarration ==
    \/ \E p \in Procs, mascot_voice \in Voices :
          RenderVideo(p, Uuid4(1), TRUE, mascot_voice)
    \/ \E p \in Procs, outcome \in TtsOutcomes, seconds \in NarrationSeconds \cup {0} :
          RenderVideoAfterTts(p, outcome, seconds)
    \/ \E p \in Procs, outcome \in MuxOutcomes : RenderVideoAfterFfmpeg(p, outcome)

SpecNarration == InitNarration /\ [][NextNarration]_vars

NextGenerate ==
    \/ \E p \in Procs, fact_id \in FactIdInputs, vibe \in Vibes :
          GenerateVideo(p, fact_id, vibe)
    \/ \E p \in Procs, answer \in AiAnswersFor(TRUE) \cup AiAnswersFor(FALSE) :
          GenerateVideoResume(p, answer)

SpecGenerate == InitGenerate /\ [][NextGenerate]_vars

\* generate_video and render_video together, from the empty script cache,
\* with every external capability configured: requests for fact f1 and vibe
\* hype whose script call fails, and renders with narration of what they
\* stored, each external call succeeding or failing
InitPipeline ==
    /\ InitStores
    /\ NoOverlay
    /\ NoScripts
    /\ google_key = TRUE
    /\ toolchain = TRUE
    /\ elevenlabs_key = TRUE

NextPipeline ==
    \/ \E p \in Procs : GenerateVideo(p, "f1", "hype")
    \/ \E p \in Procs, answer \in {[kind |-> "throws"], [kind |-> "no_json"]} :
          GenerateVideoResume(p, answer)
    \/ \E p \in Procs, video_id \in VideoIdInputs : RenderVideo(p, video_id, TRUE, "seal")
    \/ \E p \in Procs, outcome \in {"ok", "error"} :
          RenderVideoAfterTts(p, outcome, IF outcome = "ok" THEN 9 ELSE 0)
    \/ \E p \in Procs, outcome \in MuxOutcomes : RenderVideoAfterFfmpeg(p, outcome)

SpecPipeline == InitPipeline /\ [][NextPipeline]_vars

\* render ids a client may ask to download: those stored, and an unknown one
RenderIdInputs == DOMAIN rendered_videos \cup {"u0"}

\* the pipeline with downloads of the rendered videos
NextDownload ==
    \/ NextPipeline
    \/ \E render_id \in RenderIdInputs : DownloadRenderedVideo(render_id)

SpecDownload == InitPipeline /\ [][NextDownload]_vars

\* one stored video, the voice service configured, ffmpeg installed or not
InitProbe ==
    /\ InitStores
    /\ NoOverlay
    /\ toolchain \in BOOLEAN
    /\ elevenlabs_key = TRUE
    /\ google_key = FALSE
    /\ OneVideo([kind |-> "unconfigured"])

\* renders while ffmpeg is installed and removed; a run of a binary that is
\* not there fails
NextProbe ==
    \/ \E p \in Procs, video_id \in VideoIdInputs, include_audio \in BOOLEAN :
          RenderVideo(p, video_id, include_audio, "seal")
    \/ \E p \in Procs, outcome \in {"ok", "error"} :
          RenderVideoAfterTts(p, outcome, IF outcome = "ok" THEN 9 ELSE 0)
    \/ \E p \in Procs, outcome \in (IF toolchain THEN MuxOutcomes ELSE {"error"}) :
          RenderVideoAfterFfmpeg(p, outcome)
    \/ ToolchainChange

SpecProbe == InitProbe /\ [][NextProbe]_vars

\* the same requests, one at a time: a request is taken up only when no
\* handler is suspended
AllIdle == \A q \in Procs : pc[q] = "idle"

NextGenerateSeq == NextGenerate /\ (AllIdle \/ AllIdle')

SpecGenerateSeq == InitGenerate /\ [][NextGenerateSeq]_vars
\* _build_text_filter on its own, on the lines of every script with up to
\* MaxBodyLines body lines drawn from LineInputs
LineInputs == {"Okay but like...", "It's 5:00", "Remember this fr fr"}

BodyInputs == UNION {[1..n -> LineInputs] : n \in 0..MaxBodyLines}

\* a script whose four lines have 29, 30, 49 and 50 characters (the last one
\* with the mark and the space _assemble_video puts before the repeat phrase)
BoundaryScript ==
    [hook |-> "Water boils at 100 C, no cap!",
     body |-> <<"Water boils at 100 C, period!!",
                "The boiling point drops as the altitude increases">>,
     repeat_phrase |-> "Water boils at one hundred degrees to be precise"]

ScriptInputs ==
    {[hook |-> h, body |-> b, repeat_phrase |-> r] :
        h \in LineInputs, b \in BodyInputs, r \in LineInputs}
    \cup {BoundaryScript}

InitOverlay ==
    /\ InitStores
    /\ NoScripts
    /\ google_key = FALSE
    /\ toolchain = TRUE
    /\ elevenlabs_key = FALSE
    /\ \E script \in ScriptInputs : text_lines = TextLines(script)
    /\ filters = <<>>

BuildTextFilterCall ==
    /\ filters = <<>>
    /\ filters' = BuildTextFilter(text_lines, Duration)
    /\ UNCHANGED <<generated_videos, rendered_videos, files, ffmpeg_cache, toolchain,
                   google_key, elevenlabs_key, uuid_count, pc, local, event,
                   script_calls, script_log, first_video, tts_log, mux_log, render_returns,
                   text_lines>>

NextOverlay == BuildTextFilterCall

SpecOverlay == InitOverlay /\ [][NextOverlay]_vars

\* _build_text_filter on one line at a time, for every line of up to MaxLineLen
\* characters over the quote, the colon, the backslash and a letter
EscapeAlphabet == {"'", ":", "\\", "a"}

RECURSIVE LinesOfLength(_)
LinesOfLength(n) ==
    IF n = 0 THEN {""}
    ELSE {c \o rest : c \in EscapeAlphabet, rest \in LinesOfLength(n - 1)}

EscapeLines == UNION {LinesOfLength(n) : n \in 0..MaxLineLen}

InitEscape ==
    /\ InitStores
    /\ NoScripts
    /\ google_key = FALSE
    /\ toolchain = TRUE
    /\ elevenlabs_key = FALSE
    /\ \E line \in EscapeLines : text_lines = <<line>>
    /\ filters = <<>>

SpecEscape == InitEscape /\ [][NextOverlay]_vars

\* ------------------------------------------------------------------ claims
RenderOps == {"RenderVideo", "RenderVideoAfterTts", "RenderVideoAfterFfmpeg"}

\* C1: with the requests served one at a time, generate_video_script is called
\* at most once per (fact_id, vibe), and every call for a pair that was
\* answered before answers 200 with the record of the first answer, calls
\* nothing and leaves generated_videos as it was.
C1_IdempotentCache ==
    /\ [](\A k \in Pairs : script_calls[k] <= 1)
    /\ [][\A k \in DOMAIN first_video :
            (event'.op = "GenerateVideo" /\ event'.req = k) =>
                /\ event'.code = 200
                /\ event'.body = first_video[k]
                /\ event'.invoked = {}
                /\ generated_videos' = generated_videos
                /\ script_calls' = script_calls]_vars

\* a call answered from the cache, after the one call that generated the script
C1_Witness ==
    /\ event.op = "GenerateVideo"
    /\ event.code = 200
    /\ script_calls[event.req] = 1
    /\ event.body = first_video[event.req]

C3_UnavailableIsPending ==
    (/\ event.op \in RenderOps
     /\ event.code # 0
     /\ event.req \in DOMAIN generated_videos
     /\ ffmpeg_cache = <<FALSE>>)
    => /\ event.code = 200
       /\ event.body.status = "pending_ffmpeg"
       /\ rendered_videos[event.body.render_id] = event.body

\* a render answered without ffmpeg after its narration call failed
C3_Witness ==
    /\ event.op = "RenderVideoAfterTts"
    /\ event.code = 200
    /\ ffmpeg_cache = <<FALSE>>
    /\ tts_log[event.body.render_id] = "error"

\* C4: once the probe has reported ffmpeg unavailable, a render answered for a
\* known video id has written the placeholder document, with the script and
\* the output name, at data/videos/<render_id>_pending.json, and its result
\* carries that path.
C4_PlaceholderWritten ==
    (/\ event.op \in RenderOps
     /\ event.code = 200
     /\ ffmpeg_cache = <<FALSE>>)
    => LET render_id == event.body.render_id
           path == "data/videos/" \o render_id \o "_pending.json"
       IN /\ path \in DOMAIN files
          /\ files[path].script = generated_videos[event.req].script
          /\ files[path].output_name = render_id
          /\ "video_path" \in DOMAIN event.body
          /\ event.body.video_path = path

\* C5: a stored result has the status complete exactly when ffmpeg was
\* available to its render and the ffmpeg run exited with 0; then video_path is
\* data/videos/<render_id>.mp4 and the media file is there; in every other case
\* the status is pending_ffmpeg.
C5_CompleteIffMuxed ==
    \A rid \in DOMAIN rendered_videos :
        LET r == rendered_videos[rid]
            muxed == /\ r.services.ffmpeg
                     /\ rid \in DOMAIN mux_log
                     /\ mux_log[rid] = "ok"
        IN /\ r.status = "complete" <=> muxed
           /\ muxed => /\ "video_path" \in DOMAIN r
                       /\ r.video_path = "data/videos/" \o rid \o ".mp4"
                       /\ r.video_path \in DOMAIN files
                       /\ files[r.video_path].kind = "mp4"
           /\ ~muxed => r.status = "pending_ffmpeg"

\* a completed render next to one whose ffmpeg run failed
C5_Witness ==
    \E a, b \in DOMAIN rendered_videos :
        /\ rendered_videos[a].status = "complete"
        /\ b \in DOMAIN mux_log
        /\ mux_log[b] = "error"
        /\ rendered_videos[b].status = "pending_ffmpeg"

\* C6: no stored result with the status pending_ffmpeg has a video_path.
C6_PendingHasNoVideoPath ==
    \A rid \in DOMAIN rendered_videos :
        rendered_videos[rid].status = "pending_ffmpeg"
            => "video_path" \notin DOMAIN rendered_videos[rid]

\* C7: a stored result has an audio_path only if text_to_speech was called in
\* its render and returned audio.
C7_AudioPathOnlyOnSuccess ==
    \A rid \in DOMAIN rendered_videos :
        "audio_path" \in DOMAIN rendered_videos[rid]
            => rid \in DOMAIN tts_log /\ tts_log[rid] = "ok"

\* a render with narration next to one whose narration call answered empty
C7_Witness ==
    \E a, b \in DOMAIN rendered_videos :
        /\ "audio_path" \in DOMAIN rendered_videos[a]
        /\ b \in DOMAIN tts_log
        /\ tts_log[b] = "empty"
        /\ "audio_path" \notin DOMAIN rendered_videos[b]

\* C8: rendered_videos holds one entry per render_video call that returned a
\* result, each under its own render id; a returning call stores under an id
\* that was not a key before, and no step changes or removes an entry.
C8_RendersNotDeduplicated ==
    /\ [](/\ Cardinality(DOMAIN rendered_videos) = render_returns
          /\ \A rid \in DOMAIN rendered_videos : rendered_videos[rid].render_id = rid)
    /\ [][/\ \A rid \in DOMAIN rendered_videos :
                /\ rid \in DOMAIN rendered_videos'
                /\ rendered_videos'[rid] = rendered_videos[rid]
          /\ render_returns' # render_returns
                => event'.body.render_id \notin DOMAIN rendered_videos]_vars

\* two renders of the same video with the same outcome
C8_Witness ==
    \E a, b \in DOMAIN rendered_videos :
        /\ a # b
        /\ rendered_videos[a].video_id = rendered_videos[b].video_id
        /\ rendered_videos[a].status = rendered_videos[b].status
        /\ DOMAIN rendered_videos[a] = DOMAIN rendered_videos[b]
        /\ render_returns = 2

\* C9: render_video for a video id that is not a key of generated_videos
\* answers 404, calls neither the probe, nor the narration, nor ffmpeg, and
\* changes nothing.
C9_UnknownVideoNotFound ==
    [][(event'.op = "RenderVideo" /\ event'.req \notin DOMAIN generated_videos) =>
          /\ event'.code = 404
          /\ event'.invoked = {}
          /\ UNCHANGED <<generated_videos, rendered_videos, files, ffmpeg_cache,
                         uuid_count, pc, local, tts_log, mux_log, render_returns>>]_vars

\* a 404 answered while nothing has been probed yet
C9_Witness ==
    /\ event.op = "RenderVideo"
    /\ event.code = 404
    /\ event.req \notin DOMAIN generated_videos
    /\ ffmpeg_cache = <<>>
\* C10: the overlay of n lines has n filters, filter i shown from i*15/n to
\* (i+1)*15/n; the windows start at 0, end at 15 and are contiguous, and at no
\* instant t of [0, 15) is more than one filter drawn.
C10_WindowsPartition ==
    filters # <<>> =>
        LET n == Len(text_lines)
            Instants == {Frac(k, n) : k \in 0..(15 * n - 1)}
        IN /\ n >= 2
           /\ Len(filters) = n
           /\ \A i \in 1..n :
                 /\ filters[i].start_time.num * n = (i - 1) * 15 * filters[i].start_time.den
                 /\ filters[i].end_time.num * n = i * 15 * filters[i].end_time.den
           /\ filters[1].start_time.num = 0
           /\ filters[n].end_time.num = 15 * filters[n].end_time.den
           /\ \A i \in 1..(n - 1) : filters[i].end_time = filters[i + 1].start_time
           /\ \A t \in Instants :
                 Cardinality({i \in 1..n : Drawn(filters[i], t)}) <= 1

\* C11: the font size of every filter is 72 when its line, as given, has fewer
\* than 30 characters, 56 when it has 30 to 49, and 48 when it has 50 or more;
\* so lines of 29, 30, 49 and 50 characters get 72, 56, 56 and 48, and lines of
\* the same length get the same size.
C11_FontTiers ==
    filters # <<>> =>
        /\ \A i \in 1..Len(filters) :
              LET n == Len(text_lines[i]) IN
              /\ filters[i].fontsize \in {72, 56, 48}
              /\ n < 30 => filters[i].fontsize = 72
              /\ (30 <= n /\ n <= 49) => filters[i].fontsize = 56
              /\ n >= 50 => filters[i].fontsize = 48
        /\ \A i, j \in 1..Len(filters) :
              Len(text_lines[i]) = Len(text_lines[j])
                  => filters[i].fontsize = filters[j].fontsize

\* the filters of four lines of 29, 30, 49 and 50 characters
C11_Witness ==
    /\ Len(filters) = 4
    /\ <<Len(text_lines[1]), Len(text_lines[2]), Len(text_lines[3]), Len(text_lines[4])>>
          = <<29, 30, 49, 50>>
    /\ <<filters[1].fontsize, filters[2].fontsize, filters[3].fontsize, filters[4].fontsize>>
          = <<72, 56, 56, 48>>

\* the reading that undoes the two rules of the escaping, left to right: '\''
\* is a quote, \: is a colon, every other character is itself
RECURSIVE Unescape(_)
Unescape(s) ==
    IF Len(s) = 0 THEN ""
    ELSE IF Len(s) >= 4 /\ SubSeq(s, 1, 4) = "'\\''"
         THEN "'" \o Unescape(SubSeq(s, 5, Len(s)))
    ELSE IF Len(s) >= 2 /\ SubSeq(s, 1, 2) = "\\:"
         THEN ":" \o Unescape(SubSeq(s, 3, Len(s)))
    ELSE SubSeq(s, 1, 1) \o Unescape(SubSeq(s, 2, Len(s)))

\* the escaped form of every line of EscapeLines
EscapedForms == [line \in EscapeLines |-> EscapeLine(line)]

\* C12: the text of the filter of a line, read back by Unescape, is the line,
\* and no other line has the same escaped text.
C12_EscapeRoundTrip ==
    filters # <<>> =>
        /\ Unescape(filters[1].text) = text_lines[1]
        /\ \A other \in EscapeLines :
              EscapedForms[other] = filters[1].text => other = text_lines[1]

\* a line with a letter, a quote, a colon and a backslash, escaped
C12_Witness ==
    /\ text_lines = <<"a':\\">>
    /\ filters # <<>>
    /\ filters[1].text = "a'\\''\\:\\"

\* C13: the background input of every ffmpeg command is the file the table
\* gives for the background field of the script when that file is on disk, and
\* a colour source of 1080x1920 otherwise.
C13_BackgroundFromScript ==
    \A p \in Procs :
        pc[p] = "await_ffmpeg" =>
            LET asset == "data/assets/backgrounds/" \o BgVideos[local[p].script.background]
                bg_input == local[p].cmd.bg_input
            IN IF asset \in DOMAIN files
               THEN bg_input.kind = "file" /\ bg_input.path = asset
               ELSE bg_input.kind = "color" /\ bg_input.s = <<1080, 1920>>

C15_FallbackScript ==
    \A id \in DOMAIN script_log :
        LET answer == script_log[id]
            script == generated_videos[id].script
            fact == extracted_facts[script.fact_id].fact
            falls_back ==
                IF answer.kind = "json"
                THEN ~({"hook", "body", "repeat_phrase", "mascot_cues"}
                          \subseteq DOMAIN answer.object)
                ELSE TRUE
        IN falls_back =>
              /\ script.hook = "Okay but like..."
              /\ Len(script.body) = 3
              /\ script.repeat_phrase = Prefix(fact, 35)
              /\ Len(script.mascot_cues) = 2

C17_TruncatedNotRejected ==
    \A p \in Procs :
        pc[p] = "await_tts" =>
            LET narration == Narration(local[p].script)
            IN local[p].tts_text =
                  IF Len(narration) <= 5000 THEN narration
                  ELSE SubSeq(narration, 1, 5000)

\* a narration of 5001 characters sent as its first 5000
C17_Witness ==
    \E p \in Procs :
        /\ pc[p] = "await_tts"
        /\ Len(Narration(local[p].script)) = 5001
        /\ Len(local[p].tts_text) = 5000
        /\ local[p].tts_text # Narration(local[p].script)

C19_NarrationPathOnlyOnSuccess ==
    /\ [][\A p \in Procs :
            (pc[p] = "await_tts" /\ local[p].available /\ pc'[p] # pc[p])
                => pc'[p] = "await_ffmpeg"]_vars
    /\ [](\A p \in Procs :
            (pc[p] = "await_ffmpeg" /\ local[p].audio_path # None) =>
                /\ local[p].render_id \in DOMAIN tts_log
                /\ tts_log[local[p].render_id] = "ok")
\* C20: render_video for a known video id calls text_to_speech exactly when
\* include_audio is set and there is a narration key, with or without ffmpeg;
\* every step that handles the answer of text_to_speech goes on or answers 200,
\* and a render whose narration call was made, failed or not, is stored, or
\* still waiting for its ffmpeg run.
C20_SynthesisAttemptedIff ==
    /\ (event.op = "RenderVideo" /\ event.req \in DOMAIN generated_videos) =>
          /\ "tts" \in event.invoked <=> (event.include_audio /\ elevenlabs_key)
          /\ "tts" \in event.invoked =>
                \E p \in Procs : pc[p] = "await_tts" /\ local[p].video_id = event.req
    /\ event.op = "RenderVideoAfterTts" => event.code \in {0, 200}
    /\ \A rid \in DOMAIN tts_log :
          \/ /\ rid \in DOMAIN rendered_videos
             /\ rendered_videos[rid].render_id = rid
          \/ \E p \in Procs : pc[p] = "await_ffmpeg" /\ local[p].render_id = rid

\* a narration call made without ffmpeg, after an earlier render was stored
\* although its narration call failed
C20_Witness ==
    /\ event.op = "RenderVideo"
    /\ event.include_audio
    /\ "tts" \in event.invoked
    /\ ffmpeg_cache = <<FALSE>>
    /\ \E rid \in DOMAIN tts_log :
          /\ tts_log[rid] = "error"
          /\ rid \in DOMAIN rendered_videos

C22_PathsByRenderId ==
    /\ [](LET issued == {RenderId(n) : n \in 1..uuid_count}
          IN \A r1 \in issued :
                /\ Cardinality(RenderPaths(r1)) = 3
                /\ \A r2 \in issued :
                      /\ r1 # r2 => RenderPaths(r1) \cap RenderPaths(r2) = {}
                      /\ PlaceholderPath(r1) # VideoPath(r2))
    /\ [][LET acting == {p \in Procs : pc[p] \in {"await_tts", "await_ffmpeg"}
                                        /\ pc'[p] # pc[p]}
              writers == {local[p].render_id : p \in acting}
                         \cup (IF event'.op = "RenderVideo" /\ event'.code = 200
                               THEN {event'.body.render_id} ELSE {})
              written == {path \in DOMAIN files' :
                            path \notin DOMAIN files \/ files'[path] # files[path]}
          IN \A path \in written :
                /\ \E r \in writers : path \in RenderPaths(r)
                /\ \A q \in Procs \ acting :
                      pc[q] \in {"await_tts", "await_ffmpeg"} =>
                         path \notin RenderPaths(local[q].render_id)]_vars

\* two renders, one ending with its media file and one with its placeholder,
\* have both written their narration audio
C22_Witness ==
    \E r1, r2 \in DOMAIN rendered_videos :
        /\ r1 # r2
        /\ {VideoPath(r1), AudioPath(r1), PlaceholderPath(r2), AudioPath(r2)}
              \subseteq DOMAIN files
        /\ Cardinality(DOMAIN files) = 4

\* C23: every stored render result names, in video_id, the id of the video it
\* was rendered from, and a render request whose video_id is not the id of
\* any stored video (the cache key of fact and vibe, say) is answered 404
C23_VideoIdIsGeneratedId ==
    LET ids == {generated_videos[k].id : k \in DOMAIN generated_videos}
    IN /\ \A r \in DOMAIN rendered_videos : rendered_videos[r].video_id \in ids
       /\ (event.op = "RenderVideo" /\ event.req \notin ids) => event.code = 404

\* C24: a download answers with a file only for a render whose stored status
\* is complete; for a render that fell back to the placeholder it answers 404
\* and never serves the placeholder file
C24_DownloadOnlyComplete ==
    event.op = "DownloadRenderedVideo" =>
        /\ event.code = 200 =>
              /\ rendered_videos[event.req].status = "complete"
              /\ event.body.file # "placeholder"
        /\ (/\ event.req \in DOMAIN rendered_videos
            /\ rendered_videos[event.req].status = "pending_ffmpeg") => event.code = 404

\* C25: whenever the ffmpeg command of a render has a narration audio input,
\* the narration call of that render succeeded and the render's result says
\* so (audio_path set); after a call reported as failed (an empty answer, an
\* error while writing the file) the audio file is not an input of the command
C25_MuxedAudioWasSynthesized ==
    \A p \in Procs :
        (pc[p] = "await_ffmpeg" /\ local[p].cmd.audio_input # None) =>
            /\ local[p].render_id \in DOMAIN tts_log
            /\ tts_log[local[p].render_id] = "ok"
            /\ "audio_path" \in DOMAIN local[p].result

\* C26: no step of render_video changes generated_videos, whether the render
\* ends with a media file, with the placeholder or with 404: every video,
\* its script and its render_status stay as generate_video stored them, so
\* render_status is "pending" even after a render of the video completed
C26_RenderLeavesVideos ==
    /\ [](\A k \in DOMAIN generated_videos : generated_videos[k].render_status = "pending")
    /\ [][event'.op \in RenderOps => generated_videos' = generated_videos]_vars

\* a render of a stored video has ended complete, another with the
\* placeholder, and a request for an unknown video was answered 404
C26_Witness ==
    /\ \E r1, r2 \in DOMAIN rendered_videos :
          /\ rendered_videos[r1].status = "complete"
          /\ rendered_videos[r2].status = "pending_ffmpeg"
          /\ rendered_videos[r1].video_id \in DOMAIN generated_videos
          /\ generated_videos[rendered_videos[r1].video_id].render_status = "pending"
    /\ event.op = "RenderVideo"
    /\ event.code = 404

\* C27: ffmpeg is probed at most once: once is_available has a cached value no
\* step probes again and the value never changes, whatever happens to the
\* binary afterwards; within a render the reported service status, the branch
\* taken and the guard of create_video are that one value
C27_ProbedOnce ==
    /\ [](/\ \A p \in Procs :
                pc[p] \in {"await_tts", "await_ffmpeg"} =>
                    /\ ffmpeg_cache = <<local[p].available>>
                    /\ local[p].result.services.ffmpeg = local[p].available
                    /\ pc[p] = "await_ffmpeg" => local[p].available
          /\ \A r \in DOMAIN rendered_videos :
                LET result == rendered_videos[r]
                IN /\ ffmpeg_cache = <<result.services.ffmpeg>>
                   /\ result.services.ffmpeg <=> r \in DOMAIN mux_log
                   /\ result.services.ffmpeg <=> "video_path" \in DOMAIN result
                   /\ result.services.ffmpeg <=> "message" \notin DOMAIN result)
    /\ [][/\ ffmpeg_cache # <<>> =>
                /\ ffmpeg_cache' = ffmpeg_cache
                /\ "probe" \notin event'.invoked
          /\ "probe" \in event'.invoked =>
                /\ ffmpeg_cache = <<>>
                /\ ffmpeg_cache' = <<toolchain>>]_vars

\* ffmpeg was found, then removed: a render stored since reports it available
\* and ended with the placeholder, and the render that has just started
\* without probing is on its way into the ffmpeg run
C27_Witness ==
    /\ ffmpeg_cache = <<TRUE>>
    /\ ~toolchain
    /\ event.op = "RenderVideo"
    /\ "probe" \notin event.invoked
    /\ \E p \in Procs : pc[p] = "await_ffmpeg"
    /\ \E r \in DOMAIN rendered_videos :
          /\ rendered_videos[r].services.ffmpeg
          /\ rendered_videos[r].status = "pending_ffmpeg"

====
